---- MODULE Spec2Model ----
(***************************************************************************)
(* McGillBillboard (src/dataset.py): the per-document parser               *)
(* _process_salami and the corpus pass preprocess.                         *)
(*                                                                         *)
(* Strings are sequences of one-character strings, so that str.replace,    *)
(* str.startswith, int() and the ordering used by sorted() are computed    *)
(* character by character.  A document is a sequence of lines; a line is   *)
(* a record of the parts the two regular expressions look at.              *)
(***************************************************************************)
EXTENDS Integers, Sequences, FiniteSets, TLC

VARIABLES
    corpus,      \* preprocess: x after sorted(glob(...)), the documents in path order
    pc,          \* position in preprocess / _process_salami
    n,           \* 1-based position in corpus of the document being parsed
    headers,     \* _process_salami: headers
    labels,      \* _process_salami: labels
    sections,    \* _process_salami: sections
    chords,      \* _process_salami: chords
    chord_seq,   \* _process_salami: chord_seq
    label_seq,   \* _process_salami: label_seq
    returned,    \* the tuples _process_salami has returned so far, in corpus order
    info,        \* self.info
    self_chords, \* self.chords
    self_labels, \* self.labels
    chord2idx,   \* self.chord2idx
    label2idx,   \* self.label2idx
    X,           \* self.X
    y,           \* self.y
    error,       \* the exception that ended preprocess, << >> if there is none
    call         \* a direct call of one of the nested helpers: function, argument, result

vars == << corpus, pc, n, headers, labels, sections, chords, chord_seq, label_seq,
           returned, info, self_chords, self_labels, chord2idx, label2idx, X, y,
           error, call >>

locals == << headers, labels, sections, chords, chord_seq, label_seq >>

attrs == << info, self_chords, self_labels, chord2idx, label2idx, X, y >>

-----------------------------------------------------------------------------
(* Bounds *)

\* lines of a document
MaxLines == 4
\* documents of a corpus built from SampleDocs
MaxSongs == 2
\* tokens of a line handed directly to resolve_repeats
MaxTokens == 3
\* position up to which a hyphen or a space is put into a label handed to clean_labels
MaxSplit == 2

-----------------------------------------------------------------------------
(* String literals of the source *)

s_trans        == << "t", "r", "a", "n", "s" >>
s_verse        == << "v", "e", "r", "s", "e" >>
s_chorus       == << "c", "h", "o", "r", "u", "s" >>
s_prechorus    == << "p", "r", "e", "c", "h", "o", "r", "u", "s" >>
s_intro        == << "i", "n", "t", "r", "o" >>
s_instrumental == << "i", "n", "s", "t", "r", "u", "m", "e", "n", "t", "a", "l" >>
s_spoken       == << "s", "p", "o", "k", "e", "n" >>
s_modulation   == << "m", "o", "d", "u", "l", "a", "t", "i", "o", "n" >>
s_keychange    == << "k", "e", "y", "c", "h", "a", "n", "g", "e" >>
s_eos          == << "e", "o", "s" >>
s_pause        == << "&", "p", "a", "u", "s", "e" >>

\* the characters of the model in code point order (str comparison, used by sorted)
CodePoints ==
    << " ", "#", "&", "*", "-", "0", "1", "2", "3", "4", "5", "6", "7", "8", "9", ":",
       "A", "B", "C", "D", "E", "F", "G", "N",
       "a", "b", "c", "d", "e", "f", "g", "h", "i", "j", "k", "l", "m",
       "n", "o", "p", "q", "r", "s", "t", "u", "v", "w", "x", "y", "z", "|" >>

ord(c) == CHOOSE k \in 1..Len(CodePoints) : CodePoints[k] = c

Digits == { "0", "1", "2", "3", "4", "5", "6", "7", "8", "9" }

-----------------------------------------------------------------------------
(* str and list primitives *)

\* s.startswith(p)
startswith(s, p) == Len(p) <= Len(s) /\ SubSeq(s, 1, Len(p)) = p

\* s.replace(c, '') for a one-character c
replace(s, c) == LET keep(ch) == ch # c IN SelectSeq(s, keep)

\* int(s) for a string of decimal digits
RECURSIVE int(_)
int(s) ==
    IF s = << >> THEN 0
    ELSE int(SubSeq(s, 1, Len(s) - 1)) * 10 + (ord(s[Len(s)]) - ord("0"))

\* x * reps for a list x: reps copies, none when reps <= 0
RECURSIVE times(_, _)
times(x, reps) == IF reps <= 0 THEN << >> ELSE x \o times(x, reps - 1)

\* itertools.chain.from_iterable
RECURSIVE chain(_)
chain(xs) == IF xs = << >> THEN << >> ELSE Head(xs) \o chain(Tail(xs))

\* a < b for two strings: lexicographic by code point, a proper prefix first
RECURSIVE str_lt(_, _)
str_lt(a, b) ==
    IF b = << >> THEN FALSE
    ELSE IF a = << >> THEN TRUE
    ELSE IF a[1] # b[1] THEN ord(a[1]) < ord(b[1])
    ELSE str_lt(Tail(a), Tail(b))

\* set(xs) of a list
set(xs) == { xs[k] : k \in 1..Len(xs) }

\* sorted with the order reversed
RECURSIVE sorted_reverse(_)
sorted_reverse(S) ==
    IF S = {} THEN << >>
    ELSE LET m == CHOOSE a \in S : \A b \in S \ {a} : str_lt(b, a)
         IN << m >> \o sorted_reverse(S \ {m})

\* sorted(list(S)) of a set of strings
RECURSIVE sorted(_)
sorted(S) ==
    IF S = {} THEN << >>
    ELSE LET m == CHOOSE a \in S : \A b \in S \ {a} : str_lt(a, b)
         IN << m >> \o sorted(S \ {m})

-----------------------------------------------------------------------------
(* clean_labels, lines 111-119 *)

prefixes == << s_trans, s_verse, s_chorus, s_prechorus, s_intro, s_instrumental, s_spoken >>

\* the for loop of lines 114-115, from the k-th prefix on
RECURSIVE prefix_loop(_, _)
prefix_loop(label, k) ==
    IF k > Len(prefixes) THEN label
    ELSE prefix_loop(IF startswith(label, prefixes[k]) THEN prefixes[k] ELSE label, k + 1)

\* clean_labels without the rewrite of line 117
clean_labels_no_keychange(label) ==
    prefix_loop(replace(replace(label, "-"), " "), 1)

clean_labels(label) ==
    LET stripped  == replace(replace(label, "-"), " ")
        collapsed == prefix_loop(stripped, 1)
    IN IF collapsed = s_modulation THEN s_keychange ELSE collapsed

-----------------------------------------------------------------------------
(* resolve_repeats, lines 136-140 *)

\* resolve_repeats that repeats the line with its marker: x * reps for x[:-1] * reps
resolve_repeats_keep_marker(x) ==
    IF startswith(x[Len(x)], << "x" >>)
    THEN times(x, int(Tail(x[Len(x)])))
    ELSE x

resolve_repeats(x) ==
    IF startswith(x[Len(x)], << "x" >>)
    THEN times(SubSeq(x, 1, Len(x) - 1), int(Tail(x[Len(x)])))
    ELSE x

-----------------------------------------------------------------------------
(* Documents.  A line of a document is a record:                           *)
(*   hash   the line starts with '#' (a header line); key, value, colon    *)
(*          are its key, its value and whether it holds a ':'              *)
(*   tab    the line holds a timestamp and a tab                           *)
(*   marker after the tab comes a section letter and ", "                  *)
(*   label  the run of lowercase letters and hyphens that comes next       *)
(*          (empty when the next character is neither)                     *)
(*   comma  a ',' follows the label at once                                *)
(*   words  the whitespace-separated words of the rest of the line         *)
(* A header line holds no tab; the timestamp, the section letter and the   *)
(* label hold no chord symbol; a word is a symbol or holds none.           *)

header_line(key, value, colon) ==
    [ hash |-> TRUE, key |-> key, value |-> value, colon |-> colon, tab |-> FALSE,
      marker |-> FALSE, label |-> << >>, comma |-> FALSE, words |-> << >> ]

body_line(marker, label, comma, words) ==
    [ hash |-> FALSE, key |-> "", value |-> "", colon |-> FALSE, tab |-> TRUE,
      marker |-> marker, label |-> label, comma |-> comma, words |-> words ]

\* the empty string as a line: what follows the last '\n' of a text
empty_line ==
    [ hash |-> FALSE, key |-> "", value |-> "", colon |-> FALSE, tab |-> FALSE,
      marker |-> FALSE, label |-> << >>, comma |-> FALSE, words |-> << >> ]

-----------------------------------------------------------------------------
(* valid_symbol, line 126: a word that is a symbol *)

valid_symbol(w) ==
    \/ /\ Len(w) >= 3
       /\ w[1] \in { "A", "B", "C", "D", "E", "F", "G" }
       /\ \/ w[2] = ":"
          \/ Len(w) >= 4 /\ w[2] \in { "#", "b" } /\ w[3] = ":"
    \/ w = << "*" >>
    \/ w = s_pause
    \/ Len(w) >= 2 /\ w[1] = "x" /\ \A k \in 2..Len(w) : w[k] \in Digits
    \/ w = << "N" >>

\* valid_symbol.findall(line), line 128
findall(line) == SelectSeq(line.words, valid_symbol)

\* valid_lines, lines 130-131
valid_lines(symbols) == Len(symbols) > 0

-----------------------------------------------------------------------------
(* section_regex, line 105 *)

\* ^.*\t(?:[A-Z]'*, )?(?P<type>[a-z\-]+),   matches at the start of this line
section_start(line) == line.tab /\ line.label # << >> /\ line.comma

\* (?=^.*\t(?:[A-Z]'*, )?(?:[a-z\-]+))   holds at the start of this line
lookahead(line) == line.tab /\ line.label # << >>

\* finditer whose matches leave out the line that starts the section
RECURSIVE finditer_body_only(_, _)
finditer_body_only(lines, p) ==
    IF p > Len(lines) THEN << >>
    ELSE IF ~section_start(lines[p]) THEN finditer_body_only(lines, p + 1)
    ELSE LET stops == { q \in (p + 1)..Len(lines) : lookahead(lines[q]) }
         IN IF stops = {} THEN finditer_body_only(lines, p + 1)
            ELSE LET q == CHOOSE s \in stops : \A t \in stops : s <= t
                 IN << [ type |-> lines[p].label, group |-> SubSeq(lines, p + 1, q - 1) ] >>
                    \o finditer_body_only(lines, q)

\* re.finditer(section_regex, salami, re.MULTILINE) from line p on: the matches in
\* order, each with its group 'type' and the lines it spans.  A match starts at a
\* section_start line and lazily takes whole lines up to the first later line
\* where the lookahead holds; there is no match at a line that no such line follows.
RECURSIVE finditer(_, _)
finditer(lines, p) ==
    IF p > Len(lines) THEN << >>
    ELSE IF ~section_start(lines[p]) THEN finditer(lines, p + 1)
    ELSE LET stops == { q \in (p + 1)..Len(lines) : lookahead(lines[q]) }
         IN IF stops = {} THEN finditer(lines, p + 1)
            ELSE LET q == CHOOSE s \in stops : \A t \in stops : s <= t
                 IN << [ type |-> lines[p].label, group |-> SubSeq(lines, p, q - 1) ] >>
                    \o finditer(lines, q)

\* m.group().split('\n'), line 123: the lines of the match and the empty string
\* after its last '\n'
split(group) == Append(group, empty_line)

-----------------------------------------------------------------------------
(* The header dictionary, lines 91-94 *)

header_lines(lines) == LET is_header(l) == l.hash IN SelectSeq(lines, is_header)

\* unpacking (k, v) fails on a header line without ':'
headers_unpack_fails(lines) ==
    \E k \in 1..Len(header_lines(lines)) : ~header_lines(lines)[k].colon

headers_dict(lines, fname) ==
    LET hs   == header_lines(lines)
        keys == { hs[k].key : k \in 1..Len(hs) }
        last(key) == CHOOSE k \in 1..Len(hs) :
                        /\ hs[k].key = key
                        /\ \A j \in 1..Len(hs) : hs[j].key = key => j <= k
    IN [ key \in keys \cup { "url" } |->
           IF key = "url" THEN fname ELSE hs[last(key)].value ]

-----------------------------------------------------------------------------
(* The assembly loop, lines 150-156, from the k-th section on *)

RECURSIVE assemble_labels(_, _, _)
assemble_labels(ls, cs, k) ==
    IF k > Len(ls) THEN << >>
    ELSE times(<< ls[k] >>, Len(cs[k]) - 1) \o << s_eos >> \o assemble_labels(ls, cs, k + 1)

RECURSIVE assemble_chords(_, _)
assemble_chords(cs, k) ==
    IF k > Len(cs) THEN << >> ELSE cs[k] \o assemble_chords(cs, k + 1)

\* list indexing from 0
getitem(list, i) == list[i + 1]

\* {c: i for i, c in enumerate(list)}, lines 75-76
enumerate_dict(list) ==
    [ c \in set(list) |-> (CHOOSE k \in 1..Len(list) : list[k] = c) - 1 ]

\* [index[c] for c in seq], lines 78-79
encode(index, seq) == [ k \in 1..Len(seq) |-> index[seq[k]] ]

-----------------------------------------------------------------------------
(* The inputs *)

Cmaj == << "C", ":", "m", "a", "j" >>
Dmin == << "D", ":", "m", "i", "n" >>
bar  == << "|" >>
x0   == << "x", "0" >>
x1   == << "x", "1" >>
x2   == << "x", "2" >>
x3   == << "x", "3" >>
x10  == << "x", "1", "0" >>

s_silence   == << "s", "i", "l", "e", "n", "c", "e" >>
s_pre_chorus == << "p", "r", "e", "-", "c", "h", "o", "r", "u", "s" >>
s_outro     == << "o", "u", "t", "r", "o" >>
s_bridge    == << "b", "r", "i", "d", "g", "e" >>

L_title   == header_line("title", "t", TRUE)                          \* # title: t
L_note    == header_line("note", "", FALSE)                           \* # note
L_verse   == body_line(TRUE, s_verse, TRUE, << bar, Cmaj, Dmin, x2 >>) \* 1.0<tab>A, verse, | C:maj D:min x2
L_pre     == body_line(FALSE, s_pre_chorus, TRUE, << >>)               \* 2.0<tab>pre-chorus,
L_dash    == body_line(TRUE, << "-" >>, TRUE, << bar, Dmin >>)         \* 3.0<tab>Z, -, | D:min
L_silence == body_line(FALSE, s_silence, FALSE, << >>)                 \* 4.0<tab>silence
L_c0      == body_line(FALSE, << >>, FALSE, << bar, Cmaj, x0 >>)       \* 5.0<tab>| C:maj x0
L_d       == body_line(FALSE, << >>, FALSE, << bar, Dmin, bar >>)      \* 6.0<tab>| D:min |
L_mid     == body_line(FALSE, << >>, FALSE, << Dmin, x2, << "N" >> >>) \* 7.0<tab>D:min x2 N

LineSet ==
    { L_title, L_note, L_verse, L_pre, L_dash, L_silence, L_c0, L_d, L_mid, empty_line }

\* the documents of at most MaxLines lines
Docs == UNION { [ 1..k -> LineSet ] : k \in 0..MaxLines }

SampleDocs ==
    { << L_title, L_verse, L_silence >>,
      << L_pre, L_d, L_d, L_dash, L_verse, L_c0, L_silence >>,
      << L_note, L_verse, L_silence >>,
      << L_title, L_d >> }

\* a corpus: no document, one document of Docs, or up to MaxSongs of SampleDocs
Corpora ==
    { << >> } \cup { << d >> : d \in Docs }
              \cup UNION { [ 1..k -> SampleDocs ] : k \in 2..MaxSongs }

\* the token lists of a line after valid_lines: not empty, symbols only
Tokens == { Cmaj, Dmin, x0, x1, x3, x10 }

TokenLists == UNION { [ 1..k -> Tokens ] : k \in 1..MaxTokens }

\* s with the character c put in after its first k characters
insert(s, k, c) == SubSeq(s, 1, k) \o << c >> \o SubSeq(s, k + 1, Len(s))

BaseLabels ==
    { s_trans, s_verse, s_chorus, s_prechorus, s_intro, s_instrumental, s_spoken,
      s_modulation, s_keychange, s_outro, s_bridge, s_silence, << >> }

RawLabels ==
    LET suffixed == BaseLabels
                    \cup { b \o << "-", "2" >> : b \in BaseLabels }
                    \cup { b \o << "s" >> : b \in BaseLabels }
                    \cup { << "a" >> \o b : b \in BaseLabels }
    IN suffixed \cup { insert(b, k, c) : b \in { l \in suffixed : Len(l) >= MaxSplit },
                                         k \in 0..MaxSplit, c \in { "-", " " } }

-----------------------------------------------------------------------------
(* preprocess, lines 55-82, and _process_salami, lines 85-158 *)

no_call == [ fn |-> "none", arg |-> << >>, ret |-> << >>, done |-> FALSE ]

Init ==
    /\ corpus \in Corpora
    /\ pc = "open"
    /\ n = 1
    /\ headers = << >> /\ labels = << >> /\ sections = << >> /\ chords = << >>
    /\ chord_seq = << >> /\ label_seq = << >>
    /\ returned = << >>
    /\ info = << >> /\ self_chords = << >> /\ self_labels = << >>
    /\ chord2idx = << >> /\ label2idx = << >> /\ X = << >> /\ y = << >>
    /\ error = << >>
    /\ call = no_call

\* an exception leaves _process_salami and preprocess: nothing catches it
raise(exc) ==
    /\ error' = exc
    /\ pc' = "aborted"

\* Open that catches the exception and goes on to the next document
Open_skip ==
    /\ pc = "open" /\ n <= Len(corpus)
    /\ IF headers_unpack_fails(corpus[n])
       THEN n' = n + 1 /\ pc' = "open" /\ UNCHANGED headers
       ELSE headers' = headers_dict(corpus[n], n) /\ pc' = "segment" /\ UNCHANGED n
    /\ UNCHANGED << corpus, labels, sections, chords, chord_seq, label_seq,
                    returned, attrs, error, call >>

\* lines 86-94: read the next document, build headers
Open ==
    /\ pc = "open" /\ n <= Len(corpus)
    /\ IF headers_unpack_fails(corpus[n])
       THEN raise(<< "ValueError", "line 93" >>) /\ UNCHANGED headers
       ELSE headers' = headers_dict(corpus[n], n) /\ pc' = "segment" /\ UNCHANGED error
    /\ UNCHANGED << corpus, n, labels, sections, chords, chord_seq, label_seq,
                    returned, attrs, call >>

\* lines 105-109: the sections of the document and their raw labels
Segment ==
    /\ pc = "segment"
    /\ LET ms == finditer(corpus[n], 1)
       IN /\ labels' = [ k \in 1..Len(ms) |-> ms[k].type ]
          /\ sections' = [ k \in 1..Len(ms) |-> ms[k].group ]
          /\ IF ms = << >>
             THEN raise(<< "ValueError", "line 109" >>)
             ELSE pc' = "clean" /\ UNCHANGED error
    /\ UNCHANGED << corpus, n, headers, chords, chord_seq, label_seq, returned, attrs, call >>

\* line 121
Clean ==
    /\ pc = "clean"
    /\ labels' = [ k \in 1..Len(labels) |-> clean_labels(labels[k]) ]
    /\ pc' = "tokenize"
    /\ UNCHANGED << corpus, n, headers, sections, chords, chord_seq, label_seq,
                    returned, attrs, error, call >>

\* lines 123-133: the symbols of each line of each section, lines without symbols dropped
Tokenize ==
    /\ pc = "tokenize"
    /\ sections' = [ k \in 1..Len(sections) |-> split(sections[k]) ]
    /\ chords' = [ k \in 1..Len(sections) |->
                     SelectSeq([ j \in 1..Len(sections'[k]) |-> findall(sections'[k][j]) ],
                               valid_lines) ]
    /\ pc' = "resolve"
    /\ UNCHANGED << corpus, n, headers, labels, chord_seq, label_seq, returned, attrs,
                    error, call >>

\* lines 142-144: repeats resolved line by line, the lines of a section chained
Resolve ==
    /\ pc = "resolve"
    /\ chords' = [ k \in 1..Len(chords) |->
                     chain([ j \in 1..Len(chords[k]) |-> resolve_repeats(chords[k][j]) ]) ]
    /\ pc' = "filter"
    /\ UNCHANGED << corpus, n, headers, labels, sections, chord_seq, label_seq,
                    returned, attrs, error, call >>

\* the positions of the sections kept by line 147
kept(ls) == { k \in 1..Len(ls) : ls[k] # << >> }

\* the elements of xs at the positions K, in order
RECURSIVE pick(_, _, _)
pick(xs, K, k) ==
    IF k > Len(xs) THEN << >>
    ELSE (IF k \in K THEN << xs[k] >> ELSE << >>) \o pick(xs, K, k + 1)

\* lines 146-148: sections with an empty label dropped; unpacking fails when none is left
Filter ==
    /\ pc = "filter"
    /\ IF kept(labels) = {}
       THEN raise(<< "ValueError", "line 148" >>) /\ UNCHANGED << labels, chords >>
       ELSE /\ labels' = pick(labels, kept(labels), 1)
            /\ chords' = pick(chords, kept(labels), 1)
            /\ pc' = "assemble" /\ UNCHANGED error
    /\ UNCHANGED << corpus, n, headers, sections, chord_seq, label_seq, returned, attrs, call >>

\* lines 150-156
Assemble ==
    /\ pc = "assemble"
    /\ label_seq' = assemble_labels(labels, chords, 1)
    /\ chord_seq' = assemble_chords(chords, 1)
    /\ pc' = "return"
    /\ UNCHANGED << corpus, n, headers, labels, sections, chords, returned, attrs,
                    error, call >>

\* line 158; the map of line 59 goes on to the next document
Return ==
    /\ pc = "return"
    /\ returned' = Append(returned, [ headers |-> headers, chord_seq |-> chord_seq,
                                      label_seq |-> label_seq ])
    /\ n' = n + 1
    /\ headers' = << >> /\ labels' = << >> /\ sections' = << >> /\ chords' = << >>
    /\ chord_seq' = << >> /\ label_seq' = << >>
    /\ pc' = "open"
    /\ UNCHANGED << corpus, attrs, error, call >>

\* line 61: every document is parsed; unpacking fails when there was none
Unzip ==
    /\ pc = "open" /\ n > Len(corpus)
    /\ IF returned = << >>
       THEN raise(<< "ValueError", "line 61" >>) /\ UNCHANGED info
       ELSE /\ info' = [ k \in 1..Len(returned) |-> returned[k].headers ]
            /\ pc' = "vocab" /\ UNCHANGED error
    /\ UNCHANGED << corpus, n, locals, returned, self_chords, self_labels, chord2idx,
                    label2idx, X, y, call >>

\* lines 68-76
Vocab ==
    /\ pc = "vocab"
    /\ self_chords' = sorted(set(chain([ k \in 1..Len(returned) |-> returned[k].chord_seq ])))
    /\ self_labels' = sorted(set(chain([ k \in 1..Len(returned) |-> returned[k].label_seq ])))
    /\ chord2idx' = enumerate_dict(self_chords')
    /\ label2idx' = enumerate_dict(self_labels')
    /\ pc' = "encode"
    /\ UNCHANGED << corpus, n, locals, returned, info, X, y, error, call >>

\* lines 78-82
Encode ==
    /\ pc = "encode"
    /\ X' = [ k \in 1..Len(returned) |-> encode(chord2idx, returned[k].chord_seq) ]
    /\ y' = [ k \in 1..Len(returned) |-> encode(label2idx, returned[k].label_seq) ]
    /\ pc' = "done"
    /\ UNCHANGED << corpus, n, locals, returned, info, self_chords, self_labels,
                    chord2idx, label2idx, error, call >>

Next ==
    \/ Open \/ Segment \/ Clean \/ Tokenize \/ Resolve \/ Filter \/ Assemble \/ Return
    \/ Unzip \/ Vocab \/ Encode

Spec == Init /\ [][Next]_vars

-----------------------------------------------------------------------------
(* The nested helpers called directly, on inputs of their own *)

UnitInit ==
    /\ corpus = << >>
    /\ pc = "idle"
    /\ n = 1
    /\ headers = << >> /\ labels = << >> /\ sections = << >> /\ chords = << >>
    /\ chord_seq = << >> /\ label_seq = << >>
    /\ returned = << >>
    /\ info = << >> /\ self_chords = << >> /\ self_labels = << >>
    /\ chord2idx = << >> /\ label2idx = << >> /\ X = << >> /\ y = << >>
    /\ error = << >>
    /\ call \in { [ fn |-> "resolve_repeats", arg |-> x, ret |-> << >>, done |-> FALSE ] :
                    x \in TokenLists }
            \cup { [ fn |-> "clean_labels", arg |-> l, ret |-> << >>, done |-> FALSE ] :
                    l \in RawLabels }

CallResolveRepeats ==
    /\ call.fn = "resolve_repeats" /\ ~call.done
    /\ call' = [ call EXCEPT !.ret = resolve_repeats(call.arg), !.done = TRUE ]
    /\ UNCHANGED << corpus, pc, n, locals, returned, attrs, error >>

CallCleanLabels ==
    /\ call.fn = "clean_labels" /\ ~call.done
    /\ call' = [ call EXCEPT !.ret = clean_labels(call.arg), !.done = TRUE ]
    /\ UNCHANGED << corpus, pc, n, locals, returned, attrs, error >>

UnitNext == CallResolveRepeats \/ CallCleanLabels

UnitSpec == UnitInit /\ [][UnitNext]_vars

-----------------------------------------------------------------------------
(* Properties *)

\* the number of chord tokens of the first i sections
section_end(cs, i) == Len(chain(SubSeq(cs, 1, i)))

\* C1: every song _process_salami returns has chord_seq and label_seq of the same length
C1_LengthInvariant ==
    \A k \in 1..Len(returned) :
        Len(returned[k].chord_seq) = Len(returned[k].label_seq)

\* C2: with the retained sections in labels and chords, chord_seq is the sections'
\* tokens in order and label_seq is, section by section, the label at every
\* position but the section's last chord token, where it is 'eos'
C2_RunStructure ==
    pc = "return" =>
        /\ chord_seq = chain(chords)
        /\ Len(label_seq) = Len(chord_seq)
        /\ \A i \in 1..Len(chords) :
              /\ section_end(chords, i) \in 1..Len(label_seq)
              /\ label_seq[section_end(chords, i)] = s_eos
              /\ \A p \in (section_end(chords, i - 1) + 1)..(section_end(chords, i) - 1) :
                    p \in 1..Len(label_seq) /\ label_seq[p] = labels[i]

\* C3: a section without tokens adds no entry: label_seq holds as many 'eos' as
\* there are retained sections with a token, and no more entries than chord_seq
C3_EmptySectionDropped ==
    pc = "return" =>
        /\ Cardinality({ p \in 1..Len(label_seq) : label_seq[p] = s_eos })
             = Cardinality({ i \in 1..Len(chords) : chords[i] # << >> })
        /\ Len(label_seq) = Len(chain(chords))
        /\ Len(chord_seq) = Len(chain(chords))

\* the repeat markers of Tokens and the number each one stands for
marker_count(t) ==
    CASE t = x0 -> 0 [] t = x1 -> 1 [] t = x3 -> 3 [] t = x10 -> 10 [] OTHER -> -1

\* C4: resolve_repeats on a list ending in x<n> gives n copies of the list without
\* the marker; any other list is returned as it is
C4_ResolveRepeats ==
    (call.fn = "resolve_repeats" /\ call.done) =>
        LET x    == call.arg
            r    == call.ret
            base == Len(x) - 1
            reps == marker_count(x[Len(x)])
        IN /\ reps >= 0 => /\ Len(r) = reps * base
                           /\ \A p \in 1..Len(r) : r[p] = x[((p - 1) % base) + 1]
           /\ reps < 0 => r = x
           /\ x = << Cmaj, Dmin, x3 >> => r = << Cmaj, Dmin, Cmaj, Dmin, Cmaj, Dmin >>
           /\ x = << Cmaj, x0 >> => r = << >>
           /\ x = << Cmaj, x1 >> => r = << Cmaj >>
           /\ x = << x3, Cmaj >> => r = << x3, Cmaj >>

C4_Witness ==
    /\ call.fn = "resolve_repeats" /\ call.done
    /\ call.arg = << Cmaj, Dmin, x3 >>
    /\ Len(call.ret) = 6

\* C5: clean_labels gives the label without hyphens and spaces, or the prefix of
\* the list it starts with, or 'keychange' for 'modulation'
C5_CleanLabels ==
    (call.fn = "clean_labels" /\ call.done) =>
        LET plain(c) == c \notin { "-", " " }
            cleaned  == SelectSeq(call.arg, plain)
            starts   == { k \in 1..Len(prefixes) : startswith(cleaned, prefixes[k]) }
        IN /\ starts # {} => \E k \in starts : call.ret = prefixes[k]
           /\ starts = {} /\ cleaned = s_modulation => call.ret = s_keychange
           /\ starts = {} /\ cleaned # s_modulation => call.ret = cleaned
           /\ Cardinality(starts) <= 1
           /\ call.arg = s_chorus \o << "-", "2" >> => call.ret = s_chorus
           /\ call.arg = s_verse => call.ret = s_verse
           /\ call.arg = s_modulation => call.ret = s_keychange
           /\ call.arg = s_outro => call.ret = s_outro

C5_Witness ==
    /\ call.fn = "clean_labels" /\ call.done
    /\ call.arg = s_chorus \o << "-", "2" >>
    /\ call.ret = s_chorus

\* the vocabulary list, the index map and the encoded sequences fit the songs' sequences
vocabulary_ok(list, index, encoded, seqs) ==
    /\ \A i, j \in 1..Len(list) : i < j => str_lt(list[i], list[j])
    /\ set(list) = UNION { set(seqs[k]) : k \in 1..Len(seqs) }
    /\ DOMAIN index = set(list)
    /\ \A c \in DOMAIN index :
          index[c] \in 0..(Len(list) - 1) /\ getitem(list, index[c]) = c
    /\ Len(encoded) = Len(seqs)
    /\ \A k \in 1..Len(seqs) :
          /\ Len(encoded[k]) = Len(seqs[k])
          /\ \A p \in 1..Len(seqs[k]) :
                /\ encoded[k][p] \in 0..(Len(list) - 1)
                /\ getitem(list, encoded[k][p]) = seqs[k][p]

\* C6: after preprocess each vocabulary is in strictly ascending order, its index
\* map gives every token its position, and X, y decode to the songs' sequences
C6_Vocabulary ==
    pc = "done" =>
        /\ vocabulary_ok(self_chords, chord2idx, X,
                         [ k \in 1..Len(returned) |-> returned[k].chord_seq ])
        /\ vocabulary_ok(self_labels, label2idx, y,
                         [ k \in 1..Len(returned) |-> returned[k].label_seq ])

C6_Witness ==
    /\ pc = "done"
    /\ Len(returned) >= 2
    /\ Len(self_chords) >= 2
    /\ returned[1].chord_seq # << >> /\ returned[1].chord_seq[1] # self_chords[1]
    /\ s_eos \in DOMAIN label2idx /\ Len(self_labels) >= 3
    /\ \E k \in 1..Len(X) : \E p, q \in 1..Len(X[k]) : X[k][p] # X[k][q]

\* the parse of a document fails: a header line without ':' or no section found
parse_fails(doc) == headers_unpack_fails(doc) \/ finditer(doc, 1) = << >>

\* C7 as stated: a document whose parse fails does not abort preprocess, and the
\* vocabulary and the sequences are built over the other documents
C7_SkipFailingDocument ==
    /\ (n <= Len(corpus) /\ parse_fails(corpus[n])) => pc # "aborted"
    /\ pc = "done" => Len(X) = Cardinality({ k \in 1..Len(corpus) : ~parse_fails(corpus[k]) })

\* C7 amended: the exception of a failing document ends preprocess at that
\* document, and no attribute is ever set: preprocess is done only for a corpus
\* without a failing document
C7_FailureAborts ==
    /\ (n <= Len(corpus) /\ parse_fails(corpus[n])) => pc \in { "open", "segment", "aborted" }
    /\ (\E k \in 1..Len(corpus) : parse_fails(corpus[k])) => pc \notin { "vocab", "encode", "done" }
    /\ pc = "aborted" =>
          /\ error # << >>
          /\ info = << >> /\ self_chords = << >> /\ self_labels = << >>
          /\ chord2idx = << >> /\ label2idx = << >> /\ X = << >> /\ y = << >>

C7_Witness ==
    /\ pc = "aborted"
    /\ Len(corpus) >= 2
    /\ returned # << >>
    /\ parse_fails(corpus[n])
    /\ X = << >>

\* the elements of ls that are not the empty string
RECURSIVE nonempty_labels(_)
nonempty_labels(ls) ==
    IF ls = << >> THEN << >>
    ELSE (IF Head(ls) = << >> THEN << >> ELSE << Head(ls) >>) \o nonempty_labels(Tail(ls))

\* the elements of cs whose label in ls is not the empty string
RECURSIVE chords_of_nonempty_labels(_, _)
chords_of_nonempty_labels(ls, cs) ==
    IF ls = << >> THEN << >>
    ELSE (IF Head(ls) = << >> THEN << >> ELSE << Head(cs) >>)
         \o chords_of_nonempty_labels(Tail(ls), Tail(cs))

\* C8: for every document, the sections with an empty label are dropped and the
\* others go on to the assembly unchanged and in order
C8_DiscardEmptyLabel ==
    [][ pc = "filter" =>
          /\ pc' = "assemble"
          /\ labels' = nonempty_labels(labels)
          /\ chords' = chords_of_nonempty_labels(labels, chords) ]_vars

\* the positions of the section-starting lines of a document
start_lines(doc) == { p \in 1..Len(doc) : section_start(doc[p]) }

\* the i-th section-starting line of a document
nth_start(doc, i) ==
    CHOOSE p \in start_lines(doc) : Cardinality({ q \in start_lines(doc) : q < p }) = i - 1

\* the last line of the section that starts at the i-th section-starting line
last_line(doc, i) ==
    IF i < Cardinality(start_lines(doc)) THEN nth_start(doc, i + 1) - 1 ELSE Len(doc)

\* xs ends with ys
endswith(xs, ys) ==
    Len(ys) <= Len(xs) /\ SubSeq(xs, Len(xs) - Len(ys) + 1, Len(xs)) = ys

\* C9: every section-starting line gives one section, in order, with its label,
\* and the section's lines run to the line before the next section-starting line
\* or to the end of the document
C9_Segmenter ==
    (pc = "clean" \/ (pc = "aborted" /\ error = << "ValueError", "line 109" >>)) =>
        LET doc == corpus[n]
        IN /\ Len(sections) = Cardinality(start_lines(doc))
           /\ \A i \in 1..Len(sections) :
                 /\ labels[i] = doc[nth_start(doc, i)].label
                 /\ endswith(sections[i],
                             SubSeq(doc, nth_start(doc, i) + 1, last_line(doc, i)))

\* the symbols the section-starting line of a section gives its token sequence
declaring_symbols(section) ==
    IF findall(section[1]) = << >> THEN << >> ELSE resolve_repeats(findall(section[1]))

\* C10 as stated: no line group holds a section-starting line, and a document
\* whose chord symbols all stand on section-starting lines has an empty chord_seq
C10_GroupExcludesDeclaringLine ==
    /\ pc \in { "clean", "tokenize" } =>
          \A k \in 1..Len(sections) : \A j \in 1..Len(sections[k]) :
              ~section_start(sections[k][j])
    /\ pc = "return" =>
          ((\A p \in 1..Len(corpus[n]) :
               section_start(corpus[n][p]) \/ findall(corpus[n][p]) = << >>)
           => chord_seq = << >>)

\* C10 amended: a line group begins with the line that declared it and holds no
\* other section-starting line; the symbols of that line, repeats resolved, are
\* the first tokens of the section and appear in chord_seq when its label is kept
C10_GroupBeginsWithDeclaringLine ==
    /\ pc \in { "clean", "tokenize", "resolve", "filter", "assemble", "return" } =>
          \A k \in 1..Len(sections) :
              /\ Len(sections[k]) >= 1
              /\ section_start(sections[k][1])
              /\ \A j \in 2..Len(sections[k]) : ~section_start(sections[k][j])
    /\ pc = "clean" => \A k \in 1..Len(sections) : labels[k] = sections[k][1].label
    /\ pc = "filter" =>
          \A k \in 1..Len(sections) : startswith(chords[k], declaring_symbols(sections[k]))
    /\ pc = "return" =>
          \A k \in 1..Len(sections) :
              clean_labels(sections[k][1].label) # << >> =>
                  set(declaring_symbols(sections[k])) \subseteq set(chord_seq)

C10_Witness ==
    /\ pc = "return"
    /\ \E k \in 1..Len(sections) :
          /\ declaring_symbols(sections[k]) # << >>
          /\ clean_labels(sections[k][1].label) # << >>
          /\ Len(sections[k]) >= 3
    /\ chord_seq # << >>

====
